---- MODULE Spec2Model ----
(***************************************************************************)
(* A model of prefect.engine.executors.sync.SynchronousExecutor.           *)
(*                                                                         *)
(* The executor is a thin layer over dask: submit builds a dask.delayed,   *)
(* map builds a dask.bag, wait calls dask.compute four times, start sets   *)
(* dask's scheduler configuration for the length of a with-block.  The     *)
(* model keeps what dask keeps: the lazy objects (futs) with the graph     *)
(* each one stands for, the number of times each wrapped function has run  *)
(* (execs), the scheduler configuration with the values each open scope    *)
(* will restore (config, saved), the caller's upstream_states dictionary   *)
(* (upstream), and the outcome of the last call (last).                    *)
(***************************************************************************)
EXTENDS Integers, Sequences, FiniteSets, TLC

\* ------------------------------------------------------------------ bounds

MaxVal == 2
MaxLen == 2
MaxNest == 4
MaxFuts == 2
MaxExec == 2
MaxScopes == 2
MaxWait == 2
MaxTimeout == 1

\* wait nests this many dask.compute calls
NComputes == 4

\* futs      the lazy objects submit and map have returned, in order
\* execs     for each of them, how often fn has run (per row for a bag)
\* upstream  the caller's upstream_states dictionary, which map updates
\* config    dask's scheduler configuration ("unset" when none is set)
\* saved     per session, the configurations its open start() scopes kept
\* strictZip whether the installed dask checks that zipped bags are used up
\* last      the last call on the executor and its outcome
VARIABLES futs, execs, upstream, config, saved, strictZip, last

vars == <<futs, execs, upstream, config, saved, strictZip, last>>

\* ------------------------------------------------------------------ values

Vals == 1..MaxVal

\* a concrete upstream state
Item(v) == [v |-> v, k |-> "item"]
\* a python list of states
List(xs) == [k |-> "list", xs |-> xs]
\* a dask.bag holding the states xs (one partition)
Bag(xs) == [k |-> "bag", xs |-> xs]
\* the handle submit or map returned: the i-th lazy object of the executor
Ref(i) == [k |-> "ref", id |-> i]
\* what fn returns for argument a
Out(a) == [k |-> "out", of |-> a]
\* a value still wrapped in d lazy layers (fn returned a dask.delayed)
Thunk(d, r) == [k |-> "thunk", d |-> d, r |-> r]
\* the list dask.compute returns for a list or a bag
Computed(xs) == [k |-> "seq", xs |-> xs]

\* the upstream_states dictionary one call of a mapped fn receives
States(m) == [k |-> "states", m |-> m]

Items == {Item(v) : v \in Vals}

SeqsUpTo(S, n) == UNION {[1..m -> S] : m \in 0..n}

\* a function handed to submit or map: it raises for the argument bad
\* (0: never raises), and otherwise returns its result wrapped in nest
\* further dask.delayed layers
Fns == [nest : 0..MaxNest, bad : 0..1]

NoError == [type |-> "none", cause |-> "none", index |-> 0]
\* the exception fn raises
FnError(i) == [type |-> "FnError", cause |-> "none", index |-> i]
\* dask's and python's own errors
LibError(t) == [type |-> t, cause |-> "none", index |-> 0]

\* fn raises when its argument is the state it cannot handle; for a mapped
\* call the argument is the dictionary of upstream states of the element
Raises(fn, a) ==
    IF fn.bad = 0 THEN FALSE
    ELSE IF a.k = "item" THEN a = Item(fn.bad)
    ELSE \E e \in DOMAIN a.m : a.m[e] = Item(fn.bad)

FnResult(fn, a) == IF fn.nest = 0 THEN Out(a) ELSE Thunk(fn.nest, Out(a))

\* ------------------------------------------------------------------ map

\* the keys of upstream_states; mapped says whether fn is called once per
\* element of the upstream result
Edges == {[name |-> "a", mapped |-> TRUE], [name |-> "b", mapped |-> TRUE],
          [name |-> "c", mapped |-> FALSE]}

\* the shapes of an upstream value: one state, a list of states, a dask.bag
UpstreamValues ==
    Items \cup {List(xs) : xs \in SeqsUpTo(Items, MaxLen)}
          \cup {Bag(xs) : xs \in SeqsUpTo(Items, MaxLen)}

\* a python dict, as its entries in key order
Dict(es) == [k |-> "dict", es |-> es]

\* the upstream_states dictionaries of at most n entries: distinct keys
Dicts(n) ==
    {Dict(es) : es \in
        {d \in SeqsUpTo([v : UpstreamValues, edge : Edges], n) :
            \A i, j \in DOMAIN d : d[i].edge = d[j].edge => i = j}}

\* upstream_states is None
None == [k |-> "None"]

\* prefect.utilities.executors.state_to_list: a list is its own sequence of
\* states, a single state is a sequence of one
state_to_list(v) == IF v.k = "list" THEN v.xs ELSE <<v>>

\* dask.bag.from_delayed(dask.delayed(state_to_list)(v)): a bag of one
\* partition holding what state_to_list returns
from_delayed(v) == Bag(state_to_list(v))

\* the comprehension without its test of edge.mapped
needs_bagging_any_edge(d) == {i \in DOMAIN d.es : d.es[i].v.k # "bag"}

\* the comprehension of map: the entries that are replaced by a bag
needs_bagging(d) ==
    {i \in DOMAIN d.es : d.es[i].edge.mapped /\ d.es[i].v.k # "bag"}

\* upstream_states.update(needs_bagging): the values of those keys are
\* replaced where they stand
Bagged(d) ==
    Dict([i \in DOMAIN d.es |->
        IF i \in needs_bagging(d)
        THEN [v |-> from_delayed(d.es[i].v), edge |-> d.es[i].edge]
        ELSE d.es[i]])

\* keys, values = list(zip(*upstream_states.items()))
KeysOf(d) == [i \in DOMAIN d.es |-> d.es[i].edge]
ValuesOf(d) == [i \in DOMAIN d.es |-> d.es[i].v]

Min(S) == CHOOSE x \in S : \A y \in S : x <= y

\* dask.bag.map iterates every argument that is a Bag and repeats every
\* other argument
BagArgs(values) == {j \in DOMAIN values : values[j].k = "bag"}

\* the number of rows the zip of the bag arguments yields
NRows(values) == Min({Len(values[j].xs) : j \in BagArgs(values)})

\* a zip that pairs the elements from the far end
RowReversed(values, i) ==
    [j \in DOMAIN values |->
        IF values[j].k = "bag"
        THEN values[j].xs[Len(values[j].xs) + 1 - i] ELSE values[j]]

\* the i-th row: the i-th element of each bag, every other value whole
Row(values, i) ==
    [j \in DOMAIN values |->
        IF j \in BagArgs(values) THEN values[j].xs[i] ELSE values[j]]

\* prefect.utilities.executors.unpack_dict_to_bag(*values, keys=keys): the
\* values of one row packed under their keys
unpack_dict_to_bag(keys, row) ==
    States([e \in {keys[j] : j \in DOMAIN keys} |->
              row[CHOOSE j \in DOMAIN keys : keys[j] = e]])

\* what is left of each bag when the zip stops: dask's map_chunk draws one
\* element of each iterator in turn, so the bags before the first exhausted
\* one have given one element more
LeftOver(values, j) ==
    LET n == NRows(values)
        first == Min({i \in BagArgs(values) : Len(values[i].xs) = n})
    IN  Len(values[j].xs) - n - (IF j < first THEN 1 ELSE 0)

\* a dask that checks that every iterator is consumed raises ValueError
\* when one is not; a dask whose map_chunk is python's map raises nothing
ZipError(values, strict) ==
    IF strict /\ \E j \in BagArgs(values) : LeftOver(values, j) > 0
    THEN LibError("ValueError")
    ELSE NoError

\* ------------------------------------------------------------- lazy objects

\* dask.delayed(fn)(arg): the call is recorded, not made
Delayed(fn, arg) == [k |-> "delayed", fn |-> fn, arg |-> arg]

\* dask.bag.map(fn, upstream_states=dask.bag.map(unpack_dict_to_bag,
\* *values, keys=keys)): the graph is recorded, nothing is zipped yet
BagFut(fn, keys, values) ==
    [k |-> "bagfut", fn |-> fn, values |-> values, keys |-> keys]

\* wait's default: timeout=None
NoTimeout == -1

\* the outcome of the last call on the executor; for a wait also the
\* scheduler it ran on, the timeout it was handed and the calls of fn made
WaitLast(inp, ret, err, sched, timeout, calls) ==
    [inp |-> inp, ret |-> ret, err |-> err, sched |-> sched,
     timeout |-> timeout, calls |-> calls, op |-> "wait"]

Last(op, inp, ret, err, sched) ==
    [inp |-> inp, ret |-> ret, err |-> err, sched |-> sched,
     timeout |-> NoTimeout, calls |-> 0, op |-> op]

Nothing == [k |-> "nothing"]

\* the dictionaries fn is called with when bag future f is computed
Rows(f) ==
    [r \in 1..NRows(f.values) |-> unpack_dict_to_bag(f.keys, Row(f.values, r))]

\* the first row for which fn raises (0: none)
FailRow(f) ==
    LET bad == {r \in DOMAIN Rows(f) : Raises(f.fn, Rows(f)[r])}
    IN  IF bad = {} THEN 0 ELSE Min(bad)

\* the exception computing lazy object f ends with
FutError(f) ==
    IF f.k = "delayed"
    THEN IF Raises(f.fn, f.arg) THEN FnError(0) ELSE NoError
    ELSE IF FailRow(f) # 0 THEN FnError(FailRow(f))
    ELSE ZipError(f.values, strictZip)

\* the calls of fn one computation of f makes, added to the counts c: a
\* bag's partition is mapped row by row and stops at the row that raises
Ran(f, c) ==
    IF f.k = "delayed" THEN <<c[1] + 1>>
    ELSE [r \in DOMAIN c |->
            IF FailRow(f) = 0 \/ r <= FailRow(f) THEN c[r] + 1 ELSE c[r]]

\* what one computation of f yields when nothing raises
FutValue(f) ==
    IF f.k = "delayed" THEN FnResult(f.fn, f.arg)
    ELSE Computed([r \in DOMAIN Rows(f) |-> FnResult(f.fn, Rows(f)[r])])

\* ------------------------------------------------------------------ wait

RECURSIVE Compute(_)
\* one dask.compute of a python value that holds no executor future: a lazy
\* layer is removed, a list is traversed, anything else is returned as is
Compute(v) ==
    IF v.k = "thunk" THEN (IF v.d = 1 THEN v.r ELSE Thunk(v.d - 1, v.r))
    ELSE IF v.k = "seq" THEN Computed([i \in DOMAIN v.xs |-> Compute(v.xs[i])])
    ELSE v

RECURSIVE ComputeTimes(_, _)
ComputeTimes(n, v) == IF n = 0 THEN v ELSE ComputeTimes(n - 1, Compute(v))

\* the futures handed to wait, as a sequence: an iterable of handles and
\* values, or one handle
Handles(inp) == IF inp.k = "seq" THEN inp.xs ELSE <<inp>>

Perms(n) == {p \in [1..n -> 1..n] : \A i, j \in 1..n : p[i] = p[j] => i = j}

\* the places, in the order ord of forcing, whose future raises
Failing(hs, ord) ==
    {q \in DOMAIN ord :
        hs[ord[q]].k = "ref" /\ FutError(futs[hs[ord[q]].id]) # NoError}

\* a scheduler that runs every task and raises the first exception at the end
ForcedAll(hs, ord) == {hs[q].id : q \in {q \in DOMAIN hs : hs[q].k = "ref"}}

\* the synchronous scheduler runs one task at a time and re-raises the
\* first exception: the futures computed are those up to the first failure
Forced(hs, ord) ==
    LET stop == IF Failing(hs, ord) = {} THEN Len(ord) ELSE Min(Failing(hs, ord))
    IN  {hs[ord[q]].id : q \in {q \in 1..stop : hs[ord[q]].k = "ref"}}

WaitError(hs, ord) ==
    IF Failing(hs, ord) = {} THEN NoError
    ELSE FutError(futs[hs[ord[Min(Failing(hs, ord))]].id])

\* the innermost dask.compute(futures)[0]: every handle replaced by what its
\* future yields
FirstCompute(inp) ==
    LET val(h) == IF h.k = "ref" THEN FutValue(futs[h.id]) ELSE h
    IN  IF inp.k = "seq" THEN Computed([i \in DOMAIN inp.xs |-> val(inp.xs[i])])
        ELSE val(inp)

\* the scheduler dask.compute runs on: the configured one, or the default
\* of the collection when none is configured
Scheduler == IF config = "unset" THEN "default" ELSE config

\* SynchronousExecutor.wait(futures)
WaitResult(inp) == ComputeTimes(NComputes - 1, FirstCompute(inp))

\* the futures among the handles
RefIds(hs) == {hs[i].id : i \in {i \in DOMAIN hs : hs[i].k = "ref"}}

\* with no scheduler configured dask.compute takes the default scheduler of
\* the collections, and refuses collections whose defaults differ: threads
\* for a dask.delayed, processes for a dask.bag
MixedDefaults(hs) ==
    /\ Scheduler = "default"
    /\ \E i, j \in RefIds(hs) : futs[i].k = "delayed" /\ futs[j].k = "bagfut"

\* the calls of fn one computation of f makes
Calls(f) ==
    IF f.k = "delayed" THEN 1
    ELSE IF FailRow(f) = 0 THEN NRows(f.values) ELSE FailRow(f)

RECURSIVE TotalCalls(_)
TotalCalls(ids) ==
    IF ids = {} THEN 0
    ELSE LET i == CHOOSE i \in ids : TRUE
         IN  Calls(futs[i]) + TotalCalls(ids \ {i})

\* the sets of futures that may have run beside the failing one: none under
\* the synchronous scheduler, which runs one task at a time on the caller's
\* thread and stops at the first exception
Extras(inp, ord) ==
    IF Scheduler = "synchronous" \/ MixedDefaults(Handles(inp))
       \/ \E i \in DOMAIN Handles(inp) :
              Handles(inp)[i].k = "ref" /\ Handles(inp)[i].id \notin DOMAIN futs
    THEN {{}}
    ELSE SUBSET (RefIds(Handles(inp)) \ Forced(Handles(inp), ord))

\* a wait that sets the synchronous scheduler itself and leaves it set
WaitSetsScheduler(inp, ord, extra, timeout) ==
    LET hs == Handles(inp)
        err == WaitError(hs, ord)
    IN
    /\ \A i \in DOMAIN hs : hs[i].k = "ref" => hs[i].id \in DOMAIN futs
    /\ \A i \in DOMAIN hs : hs[i].k = "ref" =>
            \A r \in DOMAIN execs[hs[i].id] : execs[hs[i].id][r] < MaxExec
    /\ extra = {}
    /\ config' = "synchronous"
    /\ execs' = [i \in DOMAIN execs |->
                    IF i \in Forced(hs, ord) THEN Ran(futs[i], execs[i])
                    ELSE execs[i]]
    /\ last' = IF err # NoError
               THEN WaitLast(inp, Nothing, err, "synchronous", timeout,
                             TotalCalls(Forced(hs, ord)))
               ELSE WaitLast(inp, WaitResult(inp), NoError, "synchronous",
                             timeout, TotalCalls(Forced(hs, ord)))
    /\ UNCHANGED <<futs, upstream, saved, strictZip>>

\* SynchronousExecutor.wait(futures, timeout): timeout is not read.  ord is
\* the order in which dask runs the tasks; extra are the futures a
\* scheduler that is not the synchronous one has run beside the failing one
Wait(inp, ord, extra, timeout) ==
    LET hs == Handles(inp)
        ran == IF MixedDefaults(hs) THEN {} ELSE Forced(hs, ord) \cup extra
        err == IF MixedDefaults(hs) THEN LibError("ValueError")
               ELSE WaitError(hs, ord)
    IN
    /\ \A i \in DOMAIN hs : hs[i].k = "ref" => hs[i].id \in DOMAIN futs
    /\ \A i \in DOMAIN hs : hs[i].k = "ref" =>
            \A r \in DOMAIN execs[hs[i].id] : execs[hs[i].id][r] < MaxExec
    /\ extra \subseteq RefIds(hs) \ Forced(hs, ord)
    /\ (Scheduler = "synchronous" \/ MixedDefaults(hs)) => extra = {}
    /\ execs' = [i \in DOMAIN execs |->
                    IF i \in ran THEN Ran(futs[i], execs[i]) ELSE execs[i]]
    /\ last' = IF err # NoError
               THEN WaitLast(inp, Nothing, err, Scheduler, timeout, TotalCalls(ran))
               ELSE WaitLast(inp, WaitResult(inp), NoError, Scheduler, timeout,
                             TotalCalls(ran))
    /\ UNCHANGED <<futs, upstream, config, saved, strictZip>>

\* ---------------------------------------------------------------- submit

\* submit as "return fn(*args, **kwargs)": the call is made at once
SubmitEager(fn, arg) ==
    /\ Len(futs) < MaxFuts
    /\ futs' = Append(futs, Delayed(fn, arg))
    /\ execs' = Append(execs, <<1>>)
    /\ last' = IF Raises(fn, arg)
               THEN Last("submit", arg, Nothing, FnError(0), "none")
               ELSE Last("submit", arg, Ref(Len(futs) + 1), NoError, "none")
    /\ UNCHANGED <<upstream, config, saved, strictZip>>

\* SynchronousExecutor.submit(fn, arg)
Submit(fn, arg) ==
    /\ Len(futs) < MaxFuts
    /\ futs' = Append(futs, Delayed(fn, arg))
    /\ execs' = Append(execs, <<0>>)
    /\ last' = Last("submit", arg, Ref(Len(futs) + 1), NoError, "none")
    /\ UNCHANGED <<upstream, config, saved, strictZip>>

\* ------------------------------------------------------------------- map

\* the exception map ends with at call time
MapError(d) ==
    IF d = None THEN LibError("AssertionError")
    ELSE IF Bagged(d).es = <<>> THEN LibError("ValueError")
    ELSE IF BagArgs(ValuesOf(Bagged(d))) = {} THEN LibError("ValueError")
    ELSE NoError

\* a map that takes an empty dictionary for a map over nothing and returns
\* an empty collection for it
MapOverNothing(fn) ==
    /\ Len(futs) < MaxFuts
    /\ upstream' = IF upstream = None THEN upstream ELSE Bagged(upstream)
    /\ IF upstream = Dict(<<>>)
       THEN /\ futs' = Append(futs, BagFut(fn, <<>>, <<>>))
            /\ execs' = Append(execs, <<>>)
            /\ last' = Last("map", upstream, Ref(Len(futs) + 1), NoError, "none")
       ELSE IF MapError(upstream) # NoError
       THEN /\ last' = Last("map", upstream, Nothing, MapError(upstream), "none")
            /\ UNCHANGED <<futs, execs>>
       ELSE LET keys == KeysOf(Bagged(upstream))
                values == ValuesOf(Bagged(upstream))
            IN  /\ futs' = Append(futs, BagFut(fn, keys, values))
                /\ execs' = Append(execs, [r \in 1..NRows(values) |-> 0])
                /\ last' = Last("map", upstream, Ref(Len(futs) + 1), NoError, "none")
    /\ UNCHANGED <<config, saved, strictZip>>

\* SynchronousExecutor.map(fn, upstream_states=upstream)
Map(fn) ==
    /\ Len(futs) < MaxFuts
    /\ upstream' = IF upstream = None THEN upstream ELSE Bagged(upstream)
    /\ IF MapError(upstream) # NoError
       THEN /\ last' = Last("map", upstream, Nothing, MapError(upstream), "none")
            /\ UNCHANGED <<futs, execs>>
       ELSE LET keys == KeysOf(Bagged(upstream))
                values == ValuesOf(Bagged(upstream))
            IN  /\ futs' = Append(futs, BagFut(fn, keys, values))
                /\ execs' = Append(execs, [r \in 1..NRows(values) |-> 0])
                /\ last' = Last("map", upstream, Ref(Len(futs) + 1), NoError, "none")
    /\ UNCHANGED <<config, saved, strictZip>>

\* ----------------------------------------------------------------- queue

\* SynchronousExecutor.queue(maxsize)
Queue(maxsize) ==
    /\ last' = Last("queue", Item(maxsize),
                    [k |-> "queue", maxsize |-> maxsize, items |-> <<>>],
                    NoError, "none")
    /\ UNCHANGED <<futs, execs, upstream, config, saved, strictZip>>

\* ----------------------------------------------------------------- start

Sessions == {1, 2}

\* entering "with executor.start()": dask.config.set keeps the old
\* configuration and sets scheduler="synchronous"
Enter(s) ==
    /\ Len(saved[s]) < MaxScopes
    /\ saved' = [saved EXCEPT ![s] = Append(@, config)]
    /\ config' = "synchronous"
    /\ last' = Last("enter", Item(s), Item(0), NoError, "none")
    /\ UNCHANGED <<futs, execs, upstream, strictZip>>

\* what dask.config.set.__exit__ leaves as the configuration: the one it
\* kept on entry
Restored(s) == saved[s][Len(saved[s])]

\* start() as "cfg = set(...); yield cfg; restore": an exception in the body
\* skips the restore
ExitNoFinally(s, raising) ==
    /\ saved[s] # <<>>
    /\ config' = IF raising THEN config ELSE Restored(s)
    /\ saved' = [saved EXCEPT ![s] = SubSeq(@, 1, Len(@) - 1)]
    /\ last' = Last("exit", Item(s), Item(0),
                    IF raising THEN LibError("BodyError") ELSE NoError, "none")
    /\ UNCHANGED <<futs, execs, upstream, strictZip>>

\* leaving the innermost with-block of session s; raising says that an
\* exception is propagating out of the body
Exit(s, raising) ==
    /\ saved[s] # <<>>
    /\ config' = Restored(s)
    /\ saved' = [saved EXCEPT ![s] = SubSeq(@, 1, Len(@) - 1)]
    /\ last' = Last("exit", Item(s), Item(0),
                    IF raising THEN LibError("BodyError") ELSE NoError, "none")
    /\ UNCHANGED <<futs, execs, upstream, strictZip>>

\* ------------------------------------------------------- specifications

InitWith(U, C) ==
    /\ futs = <<>>
    /\ execs = <<>>
    /\ upstream \in U
    /\ config \in C
    /\ saved = [s \in Sessions |-> <<>>]
    /\ strictZip \in BOOLEAN
    /\ last = Last("init", Nothing, Nothing, NoError, "none")

\* what wait may be handed: one handle, or a list of at most n handles and
\* values
WaitInputs(n) ==
    LET refs == {Ref(i) : i \in DOMAIN futs}
    IN  refs \cup {Computed(xs) : xs \in SeqsUpTo(refs \cup {Item(1)}, n)}

\* the functions that return a concrete value or raise
PlainFns == {fn \in Fns : fn.nest = 0}
\* the functions that never raise
TotalFns == {fn \in Fns : fn.bad = 0}

\* one dictionary per edge, each holding a list of two states
SmallDicts ==
    {Dict(<<[v |-> List(<<Item(1), Item(2)>>), edge |-> e]>>) : e \in Edges}

\* The executor's operations on plain functions, in any order, inside and
\* outside a start() scope.
Init == InitWith(SmallDicts, {"unset"})

Next ==
    \/ \E fn \in PlainFns : Submit(fn, Item(1))
    \/ \E fn \in PlainFns : Map(fn)
    \/ \E inp \in WaitInputs(MaxWait) :
          \E ord \in Perms(Len(Handles(inp))) :
              \E extra \in Extras(inp, ord) : Wait(inp, ord, extra, NoTimeout)
    \/ Queue(0)
    \/ Enter(1)
    \/ \E raising \in BOOLEAN : Exit(1, raising)

Spec == Init /\ [][Next]_vars

\* Functions that return further lazy layers, submitted, mapped and waited
\* for.
InitDeep == InitWith({d \in SmallDicts : d.es[1].edge.name = "a"}, {"unset"})

NextDeep ==
    \/ \E fn \in Fns : Submit(fn, Item(1))
    \/ \E fn \in TotalFns : Map(fn)
    \/ \E inp \in WaitInputs(MaxWait) :
          \E ord \in Perms(Len(Handles(inp))) :
              \E extra \in Extras(inp, ord) : Wait(inp, ord, extra, NoTimeout)

SpecDeep == InitDeep /\ [][NextDeep]_vars

\* One map over every upstream_states dictionary of at most two entries,
\* and waits on what it returns.
InitMap == InitWith(Dicts(2) \cup {None}, {"unset"})

NextMap ==
    \/ futs = <<>> /\ Map([nest |-> 0, bad |-> 0])
    \/ \E inp \in WaitInputs(1) :
          \E ord \in Perms(Len(Handles(inp))) :
              \E extra \in Extras(inp, ord) : Wait(inp, ord, extra, NoTimeout)

SpecMap == InitMap /\ [][NextMap]_vars

\* Two sessions entering and leaving start() scopes, from any earlier
\* scheduler configuration, around one submitted call.
InitStart == InitWith({d \in SmallDicts : d.es[1].edge.name = "a"},
                      {"unset", "threads"})

NextStart ==
    \/ \E s \in Sessions : Enter(s)
    \/ \E s \in Sessions, raising \in BOOLEAN : Exit(s, raising)
    \/ futs = <<>> /\ Submit([nest |-> 0, bad |-> 1], Item(1))
    \/ \E inp \in WaitInputs(0) :
          \E ord \in Perms(Len(Handles(inp))) :
              \E extra \in Extras(inp, ord) : Wait(inp, ord, extra, NoTimeout)

SpecStart == InitStart /\ [][NextStart]_vars

\* Calls of map, one after another, on the same dictionary.
NextRemap == \E fn \in PlainFns : Map(fn)

SpecRemap == InitMap /\ [][NextRemap]_vars

\* Waits that are handed a timeout, counted in calls of fn (one unit of time
\* each under the synchronous scheduler), or none.
Timeouts == NoTimeout..MaxTimeout

InitTimeout == InitWith({d \in SmallDicts : d.es[1].edge.name = "a"},
                        {"synchronous"})

NextTimeout ==
    \/ \E fn \in PlainFns : Submit(fn, Item(1))
    \/ Map([nest |-> 0, bad |-> 0])
    \/ \E inp \in WaitInputs(1), timeout \in Timeouts :
          \E ord \in Perms(Len(Handles(inp))) :
              \E extra \in Extras(inp, ord) : Wait(inp, ord, extra, timeout)

SpecTimeout == InitTimeout /\ [][NextTimeout]_vars

\* ------------------------------------------------------------------ claims

\* the futures a wait was handed
Waited(inp) == {h.id : h \in {Handles(inp)[i] : i \in DOMAIN Handles(inp)} \cap
                            {Ref(i) : i \in DOMAIN futs}}

RECURSIVE Resolved(_)
\* a value that holds no lazy wrapper
Resolved(v) ==
    /\ v.k \notin {"thunk", "ref"}
    /\ v.k = "seq" => \A i \in DOMAIN v.xs : Resolved(v.xs[i])

\* C1: submit and map are lazy.  A submit or map call runs no function, of
\* the new future or of an earlier one, raises no error of a function, and
\* returns the handle of a future none of whose calls has run; the number of
\* runs of a future's function changes only in a wait that was handed it.
C1_Lazy ==
    [][/\ (last'.op \in {"submit", "map"} /\ last' # last) =>
            /\ \A i \in DOMAIN execs : execs'[i] = execs[i]
            /\ \A i \in DOMAIN execs' \ DOMAIN execs :
                   \A r \in DOMAIN execs'[i] : execs'[i][r] = 0
            /\ last'.err.type # "FnError"
            /\ last'.err = NoError => last'.ret = Ref(Len(futs'))
       /\ \A i \in DOMAIN execs :
            execs'[i] # execs[i] => last'.op = "wait" /\ i \in Waited(last'.inp)
      ]_vars

\* a map has returned a bag of a function that raises for its first row,
\* after a submit of a function that raises, and nothing has run
C1_Witness ==
    /\ last.op = "map" /\ last.err = NoError /\ last.ret = Ref(2)
    /\ futs[1].k = "delayed" /\ Raises(futs[1].fn, futs[1].arg)
    /\ futs[2].k = "bagfut" /\ FailRow(futs[2]) = 1
    /\ execs = <<(<<0>>), (<<0, 0>>)>>

\* C2: wait resolves to a fixed point.  Whenever wait returns, what it
\* returns holds no lazy wrapper, whatever the depth of nesting.
C2_FixedPoint ==
    (last.op = "wait" /\ last.err = NoError) => Resolved(last.ret)

\* C3: over any sequence of waits, a submitted function runs at most once.
C3_AtMostOnce ==
    \A i \in DOMAIN execs : \A r \in DOMAIN execs[i] : execs[i][r] <= 1

\* the sequence an upstream value stands for: the elements of a list or of
\* a bag, a single state as a sequence of one
UpstreamSeq(v) == IF v.k \in {"list", "bag"} THEN v.xs ELSE <<v>>

\* C4: the elements of a mapped edge.  When map returns, for every mapped
\* edge of the dictionary it was handed the number of elements is the
\* length of that edge's upstream sequence, and the i-th element holds
\* under the edge's key the i-th element of that sequence.
C4_MappedElements ==
    (last.op = "map" /\ last.err = NoError) =>
        LET d == last.inp
            f == futs[last.ret.id]
        IN  \A j \in DOMAIN d.es : d.es[j].edge.mapped =>
              /\ Len(Rows(f)) = Len(UpstreamSeq(d.es[j].v))
              /\ \A r \in DOMAIN Rows(f) :
                    Rows(f)[r].m[d.es[j].edge] = UpstreamSeq(d.es[j].v)[r]

\* C5: non-mapped edges are broadcast.  When map returns, every element
\* holds under the key of every non-mapped edge the whole value the
\* dictionary held for it, whatever its shape.
C5_Broadcast ==
    (last.op = "map" /\ last.err = NoError) =>
        LET d == last.inp
            f == futs[last.ret.id]
        IN  \A j \in DOMAIN d.es : ~d.es[j].edge.mapped =>
              \A r \in DOMAIN Rows(f) : Rows(f)[r].m[d.es[j].edge] = d.es[j].v

\* what a wait returned for the future i it was handed
Returned(i) ==
    IF last.inp = Ref(i) THEN last.ret
    ELSE last.ret.xs[CHOOSE p \in DOMAIN last.inp.xs : last.inp.xs[p] = Ref(i)]

\* a bag future of a dictionary of one entry, whose edge is mapped
OneMapped(f) == f.k = "bagfut" /\ Len(f.keys) = 1 /\ f.keys[1].mapped

\* the result of fn that a returned value is, or that it still wraps when fn
\* returned more lazy layers than wait removes
Core(v) == IF v.k = "thunk" THEN v.r ELSE v

\* C6: order.  map over one mapped edge records that edge's upstream
\* sequence [x1, ..., xn] in its order, and a wait that returns returns
\* for that map n values, the r-th of which is the result of fn for xr.
C6_Order ==
    /\ (last.op = "map" /\ last.err = NoError /\ OneMapped(futs[last.ret.id])) =>
          futs[last.ret.id].values[1].xs = UpstreamSeq(last.inp.es[1].v)
    /\ (last.op = "wait" /\ last.err = NoError) =>
          \A i \in Waited(last.inp) : OneMapped(futs[i]) =>
              LET xs == futs[i].values[1].xs
              IN  /\ Returned(i).k = "seq"
                  /\ Len(Returned(i).xs) = Len(xs)
                  /\ \A r \in DOMAIN xs :
                        Core(Returned(i).xs[r]) =
                            Out(States([e \in {futs[i].keys[1]} |-> xs[r]]))

\* a wait on the map of a function over the list [2, 1] has returned the
\* two results in that order
C6_Witness ==
    /\ last.op = "wait" /\ last.err = NoError /\ last.inp = Computed(<<Ref(1)>>)
    /\ OneMapped(futs[1])
    /\ futs[1].values[1].xs = <<Item(2), Item(1)>>
    /\ Len(last.ret.xs[1].xs) = 2
    /\ last.ret.xs[1].xs[1].of.m[futs[1].keys[1]] = Item(2)
    /\ last.ret.xs[1].xs[2].of.m[futs[1].keys[1]] = Item(1)

\* two mapped edges of the bag future hold sequences of different lengths
Unequal(f) ==
    /\ f.k = "bagfut"
    /\ \E i, j \in DOMAIN f.keys :
          /\ f.keys[i].mapped /\ f.keys[j].mapped
          /\ Len(f.values[i].xs) # Len(f.values[j].xs)

\* C7: alignment.  A wait on the map of two mapped edges of different
\* lengths fails with AlignmentError.
C7_Alignment ==
    (last.op = "wait" /\ \E i \in Waited(last.inp) : Unequal(futs[i])) =>
        last.err.type = "AlignmentError"

\* C8: a wait that forces a future whose function raises E fails with a
\* TaskExecutionError whose cause is E.
C8_Wrapped ==
    (last.op = "wait" /\
     \E i \in Waited(last.inp) : FutError(futs[i]).type = "FnError") =>
        last.err.type = "TaskExecutionError" /\ last.err.cause = "FnError"

\* C9: release.  Every step that leaves a start() scope of a session, with
\* or without an exception propagating, leaves the scheduler configuration
\* at the value it had just before that scope was entered.
C9_Released ==
    [][\A s \in Sessions :
          Len(saved'[s]) < Len(saved[s]) => config' = saved[s][Len(saved[s])]
      ]_vars

\* an exception has propagated out of the last open scope, and the
\* configuration is again the one set before any scope was entered
C9_Witness ==
    /\ last.op = "exit" /\ last.err.type = "BodyError"
    /\ \A s \in Sessions : saved[s] = <<>>
    /\ config = "threads"

\* C10: all or nothing.  A wait that returns a collection never returns
\* one in which some positions are resolved and others still hold a lazy
\* wrapper.
C10_AllOrNothing ==
    (last.op = "wait" /\ last.err = NoError /\ last.ret.k = "seq") =>
        ~\E p, q \in DOMAIN last.ret.xs :
            Resolved(last.ret.xs[p]) /\ ~Resolved(last.ret.xs[q])

\* C11: a wait that is handed a timeout which elapses before every future
\* is resolved fails with ExecutionTimeout instead of going on to the end.
\* Under the synchronous scheduler the calls run one after another, so a
\* wait that made more calls than its timeout has units ran past it.
C11_Timeout ==
    (last.op = "wait" /\ last.timeout # NoTimeout /\ last.sched = "synchronous"
        /\ last.calls > last.timeout)
    => last.err.type = "ExecutionTimeout"

\* C12: two sessions, each entering and leaving its own start() scope, in
\* every interleaving.  As long as a session has a scope open the scheduler
\* configuration it sees is "synchronous", and a step that leaves a scope of
\* one session leaves the configuration of the other session, if that one
\* still has a scope open, as it was.
C12_Isolated ==
    [][/\ \A s \in Sessions : saved'[s] # <<>> => config' = "synchronous"
       /\ \A s, t \in Sessions :
              (s # t /\ Len(saved'[s]) < Len(saved[s]) /\ saved[t] # <<>>)
                  => config' = config
      ]_vars

\* C13: a Future goes Pending -> Running -> Resolved or Failed and no
\* further.  A Future is Pending while its function has not run, Running
\* while a wait runs it, and Resolved or Failed from the end of that run on.
\* Every Future whose value a wait returns has run, and once an element of
\* a Future has run, no later step runs it again.
C13_Lifecycle ==
    [][\A i \in DOMAIN execs : \A r \in DOMAIN execs[i] :
          /\ execs[i][r] >= 1 => execs'[i][r] = execs[i][r]
          /\ (last'.op = "wait" /\ last'.err = NoError /\ i \in Waited(last'.inp))
                => execs'[i][r] >= 1
      ]_vars

\* C14: map with no upstream_states (None) fails with SubmissionError at
\* call time: it returns no Future, registers none and leaves the state as
\* it was.
C14_SubmissionError ==
    (last.op = "map" /\ last.inp = None) =>
        /\ last.err.type = "SubmissionError"
        /\ last.ret = Nothing
        /\ futs = <<>> /\ execs = <<>> /\ upstream = None

\* C15: the scheduler configuration is changed only by entering a start()
\* scope and by leaving it.  Every queue, submit, map and wait step, inside
\* or outside a scope, leaves the configuration, and what the open scopes
\* will put back, exactly as it was.
C15_ConfigFrame ==
    [][/\ last'.op \in {"queue", "submit", "map", "wait"}
            => config' = config /\ saved' = saved
       /\ config' # config => last'.op \in {"enter", "exit"}
      ]_vars

\* a wait has run a function inside an open scope, and the scope is still
\* open with the configuration it set
C15_Witness ==
    /\ last.op = "wait" /\ last.calls > 0
    /\ saved[1] # <<>> /\ config = "synchronous"
    /\ \E i \in DOMAIN futs : futs[i].k = "bagfut"

\* the value a future resolves to, all lazy layers removed
FullValue(f) == ComputeTimes(MaxNest + 1, FutValue(f))

\* C16: a wait that returns for an iterable of futures returns one resolved
\* value for each of them, in the order and shape of the input: the value at
\* position p is the resolved value of the p-th input future, and a value
\* that was handed in place of a future is returned as it is.
C16_OrderAndShape ==
    (last.op = "wait" /\ last.err = NoError /\ last.inp.k = "seq") =>
        /\ last.ret.k = "seq"
        /\ Len(last.ret.xs) = Len(last.inp.xs)
        /\ \A p \in DOMAIN last.inp.xs :
              /\ Resolved(last.ret.xs[p])
              /\ last.ret.xs[p] = IF last.inp.xs[p].k = "ref"
                                  THEN FullValue(futs[last.inp.xs[p].id])
                                  ELSE last.inp.xs[p]

\* C17: fail-fast within one wait.  When a wait under the synchronous
\* scheduler ends with the exception of one of its futures, that future is
\* the only failing one it ran: no function of a future that comes later
\* in the order of forcing has run, and within a map no call for an element
\* after the failing one.  The futures that were not handed to that wait
\* are as they were, none of their functions has run.
C17_FailFast ==
    [][(last'.op = "wait" /\ last'.sched = "synchronous" /\ last'.err # NoError)
        => /\ Cardinality({i \in DOMAIN execs :
                    execs'[i] # execs[i] /\ FutError(futs[i]) # NoError}) = 1
           /\ \A i \in DOMAIN execs :
                 (futs[i].k = "bagfut" /\ FailRow(futs[i]) # 0) =>
                    \A r \in DOMAIN execs[i] :
                       r > FailRow(futs[i]) => execs'[i][r] = execs[i][r]
           /\ \A i \in DOMAIN execs :
                 i \notin Waited(last'.inp) => execs'[i] = execs[i]
           /\ futs' = futs
      ]_vars

\* a wait on two futures whose functions both raise has failed after running
\* one of them, and the other has not run at all
C17_Witness ==
    /\ last.op = "wait" /\ last.sched = "synchronous" /\ last.err.type = "FnError"
    /\ Len(futs) = 2 /\ Waited(last.inp) = {1, 2}
    /\ \A i \in {1, 2} : FutError(futs[i]) # NoError
    /\ \E i \in {1, 2} : execs[i] = <<1>> /\ execs[3 - i] = <<0>>

\* C18: every call of a function that a wait causes runs on the thread
\* that called wait, one call at a time, that is under the synchronous
\* scheduler, also when the wait is issued while no start() scope is open.
C18_CallingThread ==
    (last.op = "wait" /\ last.calls > 0) => last.sched = "synchronous"

\* C19: map writes its conversions into the dictionary it is handed.  After
\* a map call every mapped edge of the dictionary holds a dask.bag, the keys
\* and their order are as before, and so is the value of every edge that is
\* not mapped or that held a dask.bag already; a second map call on the same
\* dictionary therefore changes nothing in it.
C19_InPlace ==
    [][(last'.op = "map" /\ upstream # None) =>
          /\ upstream'.k = "dict"
          /\ Len(upstream'.es) = Len(upstream.es)
          /\ \A j \in DOMAIN upstream.es :
                /\ upstream'.es[j].edge = upstream.es[j].edge
                /\ upstream.es[j].edge.mapped => upstream'.es[j].v.k = "bag"
                /\ (~upstream.es[j].edge.mapped \/ upstream.es[j].v.k = "bag")
                      => upstream'.es[j].v = upstream.es[j].v
      ]_vars

\* a second map call has returned for a dictionary of a mapped edge that
\* held a list at first and of an edge that is not mapped: the dictionary
\* it found is the one it left
C19_Witness ==
    /\ last.op = "map" /\ last.err = NoError /\ last.ret = Ref(2)
    /\ last.inp = upstream
    /\ Len(upstream.es) = 2
    /\ upstream.es[1].edge.mapped /\ upstream.es[1].v.k = "bag"
    /\ futs[1].values[1] = upstream.es[1].v
    /\ ~upstream.es[2].edge.mapped /\ upstream.es[2].v.k = "list"

\* C20: map with an empty dictionary (not None) fails at call time, where
\* the dictionary is unpacked into keys and values: the call ends with that
\* exception, returns no Future, registers none, runs nothing and leaves the
\* empty dictionary empty.
C20_EmptyDict ==
    [][(last'.op = "map" /\ upstream = Dict(<<>>)) =>
          /\ last'.err = LibError("ValueError")
          /\ last'.ret = Nothing
          /\ futs' = futs /\ execs' = execs
          /\ upstream' = upstream
      ]_vars

\* a map call on the empty dictionary has failed and no future exists
C20_Witness ==
    /\ last.op = "map" /\ last.inp = Dict(<<>>)
    /\ last.err.type = "ValueError" /\ last.ret = Nothing
    /\ upstream = Dict(<<>>) /\ futs = <<>>

====
